---------------------------- MODULE Spec2Model ----------------------------
(***************************************************************************)
(* build-hook: a webhook-triggered build-and-deploy orchestrator.          *)
(*                                                                         *)
(* Spec        the trigger pipeline: handler (api.rs) -> spawn_blocking    *)
(*             worker running ProjectConfig::build (project/mod.rs), which *)
(*             calls clone_repo (project/repo.rs) and hands the image      *)
(*             builds to a detached std::thread.                           *)
(* SpecStages  the two stage functions build_images (project/image.rs)     *)
(*             and rollout_restart (kube.rs), applied to bounded inputs.   *)
(***************************************************************************)
EXTENDS Naturals, Sequences, FiniteSets

(***************************************************************************)
(* Bounds of the model.                                                    *)
(***************************************************************************)
MaxReq == 2

MaxImages == 2

MaxBuilds == 3

MaxRes == 3

MaxInit == 2

MaxEnv == 2

MaxHdr == 3

MaxText == 1

MaxDepth == 2

(***************************************************************************)
(* Configuration (HookConfig.projects): two configured projects, and one   *)
(* slug that is not configured.                                            *)
(***************************************************************************)
Projects == {"api", "web"}

Slugs == Projects \cup {"ghost"}

ReqIds == 1..MaxReq

\* project.image.len(): validate() guarantees at least one entry.
NumImages(s) == IF s = "api" THEN MaxImages ELSE 1

VARIABLES
    cache,        \* app.cache, the `cache` argument of ProjectConfig::build
    build_locks,  \* AppState.build_locks: slug -> available permits of its Semaphore
    ws,           \* repo_dest on disk per project: "none" or "repo"
    hpc,          \* per request: position of handler()
    hslug,        \* per request: the Path(slug) of the request
    status,       \* per request: HTTP status of the response, 0 while unanswered
    wpc,          \* per request: position of the spawn_blocking worker (build)
    tpc,          \* per request: position of the std::thread spawned by build
    tidx,         \* per request: 1-based index of the image the thread is at
    builderCalls, \* per request: number of spawn_build calls of its run
    firstFail,    \* per request: position of the first image whose build failed, 0 if none
    fetchFailed,  \* per request: remote.fetch of fetch_latest failed in its run
    rival,        \* per request (history): the requests it arrived concurrently with
    reused,       \* per request: while clone_repo runs, its `repo` was opened from a checkout left on disk
    images,       \* build_images: per image, whether its Dockerfile is a file
    bpc,          \* build_images: position
    bidx,         \* build_images: 1-based index of the image at hand
    bcalls,       \* build_images: number of spawn_build calls
    bfail,        \* build_images: position of the image whose build failed, 0 if none
    bclean,       \* build_images: number of remove_dir_all calls
    bproc,        \* build_images: the build processes it spawned, in order
    resources,    \* rollout_restart: the resources argument
    rpc,          \* rollout_restart: position
    ridx,         \* rollout_restart: 1-based index of the resource at hand
    attempts,     \* rollout_restart: sequence of <<resource, outcome>> of the commands run
    rerr,         \* rollout_restart: resources named by the returned Err
    cluster,      \* buildx: the service-account token and the KUBERNETES_SERVICE_* variables
    lookalike,    \* buildx: `docker buildx ls` lists another name that contains "builder"
    builder,      \* buildx: the builder named BUILDER_NAME: absent, created, or ready
    active,       \* buildx: the builder the docker CLI has selected
    ipc,          \* initialize: position
    icall,        \* initialize: number of invocations begun
    ires,         \* initialize: per invocation, its result
    icreate,      \* initialize: per invocation, number of `docker buildx create` commands
    ifault,       \* initialize: per invocation, a command failed for a reason outside the program
    kfail,        \* setup_kubeconfig: the step that failed in the invocation at hand, 0 if none
    created,      \* buildx: number of `docker buildx create` commands that succeeded
    serving,      \* the router of api::start is being served
    env,          \* auth: the environment variable BEARER_TOKENS, set or not
    hdr,          \* auth_layer: the Authorization header of the request it ran on last
    who,          \* auth_layer: the request it ran on last, 0 if none
    auth,         \* per request: what auth_layer did with it
    path,         \* per request: the slug in its path as auth_layer got it
    health,       \* healthcheck: the last response to GET /health
    vpc,          \* validate: the field it checks next, or its result
    vfield,       \* validate: the field it checked last
    vval,         \* validate: the value of that field
    verr,         \* validate: the field its Err names
    vimg,         \* validate: 1-based index of the image at hand
    vcount,       \* validate: number of entries of project.image
    vlocs         \* validate: the image locations it accepted

pipeVars == <<cache, build_locks, ws, hpc, hslug, status, wpc, tpc, tidx,
              builderCalls, firstFail, fetchFailed, rival, reused>>

stageVars == <<images, bpc, bidx, bcalls, bfail, bclean, bproc,
               resources, rpc, ridx, attempts, rerr>>

builderVars == <<cluster, lookalike, builder, active, ipc, icall, ires, icreate,
                 ifault, kfail, created, serving>>

authVars == <<env, hdr, who, auth, path, health>>

cfgVars == <<vpc, vfield, vval, verr, vimg, vcount, vlocs>>

vars == <<pipeVars, stageVars, builderVars, authVars, cfgVars>>


(***************************************************************************)
(* Helpers.                                                                *)
(***************************************************************************)
WorkerActive == {"clone", "checkout", "fetch", "start"}

WorkerEnded == {"ok", "err", "panicked"}

ThreadActive == {"wait"}

\* The request owns the OwnedSemaphorePermit: from try_acquire_owned until
\* the spawn_blocking closure (which owns `_permit`) ends.
Holds(r) == hpc[r] = "dispatch" \/ wpc[r] \in WorkerActive

\* Some work started for the trigger is pending or executing.
RunActive(r) == Holds(r) \/ tpc[r] \in ThreadActive

\* Semaphore::try_acquire_owned succeeds iff a permit is available.
Available(s) == build_locks[s] > 0

AddPermit(s) == [build_locks EXCEPT ![s] = @ + 1]

\* A variant with one semaphore shared by all projects.
TakePermitShared(s) == [x \in DOMAIN build_locks |-> 0]

TakePermit(s) == [build_locks EXCEPT ![s] = @ - 1]

(***************************************************************************)
(* buildx.rs: the buildx builder named BUILDER_NAME and buildx::initialize. *)
(***************************************************************************)
InitIds == 1..MaxInit

\* setup_kubeconfig, one after the other: KUBERNETES_SERVICE_HOST,
\* KUBERNETES_SERVICE_PORT, the read of the token, and the kubectl config
\* commands set-cluster, set-credentials, set-context, use-context.
KubeSteps == 7

\* `docker buildx ls` prints the name of every builder, and
\* check_builder_exists is stdout.contains(BUILDER_NAME): true of the builder
\* itself and of any listed name that has "builder" in it.
Listed == builder # "absent" \/ lookalike

\* No invocation of initialize has begun.
BuilderIdle ==
    /\ ipc = "idle"
    /\ icall = 0
    /\ ires = [i \in InitIds |-> "none"]
    /\ icreate = [i \in InitIds |-> 0]
    /\ ifault = [i \in InitIds |-> FALSE]
    /\ kfail = 0
    /\ created = 0

\* The machine as a process finds it: any cluster environment, and whatever
\* builders an earlier process left.
BuilderEnv ==
    /\ cluster \in {"none", "noenv", "full"}
    /\ lookalike \in BOOLEAN
    /\ builder \in {"absent", "created", "ready"}
    /\ active \in {"default", "builder"}
    /\ active = "builder" => builder # "absent"

\* The process has a ready, selected builder and serves its router.
BuilderServing ==
    /\ cluster = "none"
    /\ lookalike = FALSE
    /\ builder = "ready"
    /\ active = "builder"
    /\ BuilderIdle
    /\ serving = TRUE

\* initialize returns res; fault tells that a command failed for a reason
\* outside the program.
Return(res, fault) ==
    /\ ipc' = res
    /\ ires' = [ires EXCEPT ![icall] = res]
    /\ ifault' = [ifault EXCEPT ![icall] = fault]

\* An invocation of initialize begins.
Initialize ==
    /\ ~serving
    /\ ipc \in {"idle", "ok", "err"}
    /\ icall < MaxInit
    /\ icall' = icall + 1
    /\ ipc' = "kube"
    /\ kfail' = 0
    /\ UNCHANGED <<cfgVars, authVars, pipeVars, stageVars, cluster, lookalike, builder, active,
                   ires, icreate, ifault, created, serving>>

\* A variant of initialize that logs a failure of setup_kubeconfig and
\* goes on to the builder.
SetupKubeconfigLogOnly ==
    /\ ipc = "kube"
    /\ ipc' = "check"
    /\ \/ /\ cluster \in {"none", "full"}
          /\ UNCHANGED kfail
       \/ /\ cluster = "noenv"
          /\ \E f \in 1..2 : kfail' = f
       \/ /\ cluster = "full"
          /\ \E f \in 3..KubeSteps : kfail' = f
    /\ UNCHANGED <<cfgVars, authVars, pipeVars, stageVars, cluster, lookalike, builder, active,
                   icall, ires, icreate, ifault, created, serving>>

\* setup_kubeconfig()?: Ok at once without a token; Err at the first
\* variable that is unset, read that fails, or command that fails.
SetupKubeconfig ==
    /\ ipc = "kube"
    /\ \/ /\ cluster = "none"
          /\ ipc' = "check"
          /\ UNCHANGED <<kfail, ires, ifault>>
       \/ /\ cluster = "noenv"
          /\ \E f \in 1..2 : kfail' = f
          /\ Return("err", FALSE)
       \/ /\ cluster = "full"
          /\ ipc' = "check"
          /\ UNCHANGED <<kfail, ires, ifault>>
       \/ /\ cluster = "full"
          /\ \E f \in 3..KubeSteps : kfail' = f
          /\ Return("err", TRUE)
    /\ UNCHANGED <<cfgVars, authVars, pipeVars, stageVars, cluster, lookalike, builder, active,
                   icall, icreate, created, serving>>

\* A variant that looks for the builder under a name `docker buildx ls`
\* never prints, so that it is never found.
CheckBuilderExistsNever ==
    /\ ipc = "check"
    /\ \/ Return("err", TRUE)
       \/ /\ ipc' = "create"
          /\ UNCHANGED <<ires, ifault>>
    /\ UNCHANGED <<cfgVars, authVars, pipeVars, stageVars, cluster, lookalike, builder, active,
                   icall, icreate, kfail, created, serving>>

\* check_builder_exists()?: Err when `docker buildx ls` cannot be run or
\* fails; then use_builder or create_builder.
CheckBuilderExists ==
    /\ ipc = "check"
    /\ \/ Return("err", TRUE)
       \/ /\ ipc' = IF Listed THEN "use" ELSE "create"
          /\ UNCHANGED <<ires, ifault>>
    /\ UNCHANGED <<cfgVars, authVars, pipeVars, stageVars, cluster, lookalike, builder, active,
                   icall, icreate, kfail, created, serving>>

\* use_builder()?: `docker buildx use builder` selects the builder, and
\* fails when there is no builder of that name.
UseBuilder ==
    /\ ipc = "use"
    /\ \/ /\ Return("err", TRUE)
          /\ UNCHANGED active
       \/ /\ builder = "absent"
          /\ Return("err", FALSE)
          /\ UNCHANGED active
       \/ /\ builder # "absent"
          /\ active' = "builder"
          /\ Return("ok", FALSE)
    /\ UNCHANGED <<cfgVars, authVars, pipeVars, stageVars, cluster, lookalike, builder,
                   icall, icreate, kfail, created, serving>>

\* create_builder()?: `docker buildx create --name builder .. --use` makes
\* and selects the builder, and fails when a builder of that name exists.
CreateBuilder ==
    /\ ipc = "create"
    /\ icreate' = [icreate EXCEPT ![icall] = @ + 1]
    /\ \/ /\ Return("err", TRUE)
          /\ UNCHANGED <<builder, active, created>>
       \/ /\ builder # "absent"
          /\ Return("err", FALSE)
          /\ UNCHANGED <<builder, active, created>>
       \/ /\ builder = "absent"
          /\ builder' = "created"
          /\ active' = "builder"
          /\ created' = created + 1
          /\ ipc' = "bootstrap"
          /\ UNCHANGED <<ires, ifault>>
    /\ UNCHANGED <<cfgVars, authVars, pipeVars, stageVars, cluster, lookalike,
                   icall, kfail, serving>>

\* bootstrap_builder()?: `docker buildx inspect --bootstrap` boots the
\* selected builder.
BootstrapBuilder ==
    /\ ipc = "bootstrap"
    /\ \/ /\ Return("err", TRUE)
          /\ UNCHANGED builder
       \/ /\ builder' = IF active = "builder" THEN "ready" ELSE builder
          /\ Return("ok", FALSE)
    /\ UNCHANGED <<cfgVars, authVars, pipeVars, stageVars, cluster, lookalike, active,
                   icall, icreate, kfail, created, serving>>

NextBuilder ==
    \/ Initialize
    \/ SetupKubeconfig
    \/ CheckBuilderExists
    \/ UseBuilder
    \/ CreateBuilder
    \/ BootstrapBuilder

(***************************************************************************)
(* auth.rs: the bearer-token layer in front of POST /{slug}.  Strings are  *)
(* sequences of characters: "B" is the word bearer in any letter case,     *)
(* "_" a space, "," a comma and "a" any other character.                   *)
(***************************************************************************)
StrsUpTo(S, n) == UNION {[1..k -> S] : k \in 0..n}

\* std::env::var("BEARER_TOKENS"): not set, or a string.
Envs ==
    {[some |-> FALSE, value |-> <<>>]}
        \cup {[some |-> TRUE, value |-> v] : v \in StrsUpTo({"a", ",", "_"}, MaxEnv)}

NoHeader == [some |-> FALSE, value |-> <<>>]

\* What headers().get(AUTHORIZATION).and_then(to_str) yields.
Headers ==
    {NoHeader} \cup {[some |-> TRUE, value |-> v] : v \in StrsUpTo({"B", "_", "a"}, MaxHdr)}

\* str::trim.
RECURSIVE Trim(_)
Trim(s) ==
    IF s = <<>> THEN s
    ELSE IF Head(s) = "_" THEN Trim(Tail(s))
    ELSE IF s[Len(s)] = "_" THEN Trim(SubSeq(s, 1, Len(s) - 1))
    ELSE s

\* str::split(','): the pieces between the commas, empty ones included.
RECURSIVE Split(_)
Split(s) ==
    IF \E i \in 1..Len(s) : s[i] = ","
    THEN LET i == CHOOSE k \in 1..Len(s) :
                      s[k] = "," /\ \A j \in 1..(k - 1) : s[j] # ","
         IN  <<SubSeq(s, 1, i - 1)>> \o Split(SubSeq(s, i + 1, Len(s)))
    ELSE <<s>>

\* BEARER_TOKENS, which is set, split at commas, every piece trimmed and
\* kept.
load_bearer_tokens_from_env ==
    LET parts == Split(env.value) IN [i \in 1..Len(parts) |-> Trim(parts[i])]

NoToken == [some |-> FALSE, value |-> <<>>]

\* A variant without the test for an empty token.
parse_bearer_any_token(v) ==
    IF \E i \in 1..Len(v) : v[i] = "_"
    THEN LET i == CHOOSE k \in 1..Len(v) :
                      v[k] = "_" /\ \A j \in 1..(k - 1) : v[j] # "_"
             scheme == SubSeq(v, 1, i - 1)
             token == SubSeq(v, i + 1, Len(v))
         IN  IF scheme = <<"B">>
             THEN [some |-> TRUE, value |-> token]
             ELSE NoToken
    ELSE NoToken

\* split_once(' '), then scheme.eq_ignore_ascii_case("Bearer") and a
\* non-empty token.
parse_bearer(v) ==
    IF \E i \in 1..Len(v) : v[i] = "_"
    THEN LET i == CHOOSE k \in 1..Len(v) :
                      v[k] = "_" /\ \A j \in 1..(k - 1) : v[j] # "_"
             scheme == SubSeq(v, 1, i - 1)
             token == SubSeq(v, i + 1, Len(v))
         IN  IF scheme = <<"B">> /\ token # <<>>
             THEN [some |-> TRUE, value |-> token]
             ELSE NoToken
    ELSE NoToken

authorize_bearer(token) ==
    \E i \in 1..Len(load_bearer_tokens_from_env) :
        load_bearer_tokens_from_env[i] = token

\* What auth_layer makes of header h; load_bearer_tokens_from_env panics
\* when BEARER_TOKENS is not set.
Verdict(h) ==
    IF ~h.some THEN "missing"
    ELSE IF ~parse_bearer(h.value).some THEN "format"
    ELSE IF ~env.some THEN "panicked"
    ELSE IF ~authorize_bearer(parse_bearer(h.value).value) THEN "token"
    ELSE "pass"

\* The response of auth_layer itself, 0 if it sends none.
AuthStatus(v, old) == IF v \in {"missing", "format", "token"} THEN 401 ELSE old

\* auth_layer on request r for slug s, whose Authorization header is h:
\* 401, or a panic that ends the request without a response, or
\* next.run(request).
auth_layer(r, s, h) ==
    /\ serving
    /\ auth[r] = "new"
    /\ \A q \in ReqIds : q < r => auth[q] # "new"
    /\ path' = [path EXCEPT ![r] = s]
    /\ hdr' = h
    /\ who' = r
    /\ auth' = [auth EXCEPT ![r] = Verdict(h)]
    /\ status' = [status EXCEPT ![r] = AuthStatus(Verdict(h), @)]
    /\ UNCHANGED <<cfgVars, builderVars, stageVars, env, health, cache, build_locks,
                   ws, hpc, hslug, wpc, tpc, tidx, builderCalls, firstFail,
                   fetchFailed, rival, reused>>

\* Every request went through auth_layer and was let through.
AuthPassed ==
    /\ env = [some |-> TRUE, value |-> <<"a">>]
    /\ hdr = NoHeader
    /\ who = 0
    /\ auth = [r \in ReqIds |-> "pass"]
    /\ path = [r \in ReqIds |-> "any"]
    /\ health = "none"

\* validate returned Ok before the process got here.
CfgLoaded ==
    /\ vpc = "ok"
    /\ vfield = "none"
    /\ vval = <<>>
    /\ verr = "none"
    /\ vimg = 0
    /\ vcount = 0
    /\ vlocs = <<>>

(***************************************************************************)
(* Init: the state after api::start built AppState.                        *)
(***************************************************************************)
StageIdle ==
    /\ images = <<>>
    /\ bpc = "idle"
    /\ bidx = 0
    /\ bcalls = 0
    /\ bfail = 0
    /\ bclean = 0
    /\ bproc = <<>>
    /\ resources = <<>>
    /\ rpc = "idle"
    /\ ridx = 0
    /\ attempts = <<>>
    /\ rerr = {}

PipeIdle ==
    /\ build_locks = [s \in Projects |-> 1]
    /\ ws = [s \in Projects |-> "none"]
    /\ hpc = [r \in ReqIds |-> "idle"]
    /\ hslug = [r \in ReqIds |-> "ghost"]
    /\ status = [r \in ReqIds |-> 0]
    /\ wpc = [r \in ReqIds |-> "none"]
    /\ tpc = [r \in ReqIds |-> "none"]
    /\ tidx = [r \in ReqIds |-> 0]
    /\ builderCalls = [r \in ReqIds |-> 0]
    /\ firstFail = [r \in ReqIds |-> 0]
    /\ fetchFailed = [r \in ReqIds |-> FALSE]
    /\ rival = [r \in ReqIds |-> {}]
    /\ reused = [r \in ReqIds |-> FALSE]

Init ==
    /\ cache \in BOOLEAN
    /\ PipeIdle
    /\ StageIdle
    /\ BuilderServing
    /\ AuthPassed
    /\ CfgLoaded

\* A sequence of invocations of initialize on any machine.
InitBuilder ==
    /\ cache = FALSE
    /\ PipeIdle
    /\ StageIdle
    /\ BuilderEnv
    /\ BuilderIdle
    /\ serving = FALSE
    /\ AuthPassed
    /\ CfgLoaded

SpecBuilder == InitBuilder /\ [][NextBuilder]_vars

(***************************************************************************)
(* handler (api.rs): one POST /{slug} request that passed auth_layer.      *)
(***************************************************************************)
\* The requests for slug s whose handler has not reached try_acquire_owned
\* yet, while s has no run in flight and its permit is free.
Racing(s) ==
    IF s \in Projects /\ build_locks[s] = 1
       /\ \A q \in ReqIds : hslug[q] = s => ~RunActive(q)
    THEN {q \in ReqIds : hslug[q] = s /\ hpc[q] = "acquire"}
    ELSE {}

\* Request q reached handler, or auth_layer answered it.
Arrived(q) == hpc[q] # "idle" \/ auth[q] \notin {"new", "pass"}

\* A variant that creates the slug's lock on first use, before the
\* configuration is consulted.
HandlerLookupLazyLock(r, s) ==
    /\ serving
    /\ auth[r] = "pass"
    /\ path[r] \in {"any", s}
    /\ hpc[r] = "idle"
    /\ \A q \in ReqIds : q < r => Arrived(q)
    /\ hslug' = [hslug EXCEPT ![r] = s]
    /\ rival' = [rival EXCEPT ![r] = Racing(s)]
    /\ IF s \notin Projects
       THEN /\ status' = [status EXCEPT ![r] = 404]
            /\ hpc' = [hpc EXCEPT ![r] = "done"]
            /\ build_locks' = [x \in DOMAIN build_locks \cup {s} |->
                                 IF x \in DOMAIN build_locks THEN build_locks[x] ELSE 1]
       ELSE /\ hpc' = [hpc EXCEPT ![r] = "acquire"]
            /\ UNCHANGED <<status, build_locks>>
    /\ UNCHANGED <<cfgVars, authVars, builderVars, stageVars, reused, cache, ws, wpc, tpc, tidx,
                   builderCalls, firstFail, fetchFailed>>

\* A request for slug s reaches handler, which the router serves once
\* api::start runs axum::serve (requests are numbered in order of arrival):
\* state.config.projects.get(&slug), then state.build_locks.get(&slug).
HandlerLookup(r, s) ==
    /\ serving
    /\ auth[r] = "pass"
    /\ path[r] \in {"any", s}
    /\ hpc[r] = "idle"
    /\ \A q \in ReqIds : q < r => Arrived(q)
    /\ hslug' = [hslug EXCEPT ![r] = s]
    /\ rival' = [rival EXCEPT ![r] = Racing(s)]
    /\ IF s \notin Projects
       THEN /\ status' = [status EXCEPT ![r] = 404]
            /\ hpc' = [hpc EXCEPT ![r] = "done"]
       ELSE IF s \notin DOMAIN build_locks
       THEN /\ status' = [status EXCEPT ![r] = 500]
            /\ hpc' = [hpc EXCEPT ![r] = "done"]
       ELSE /\ hpc' = [hpc EXCEPT ![r] = "acquire"]
            /\ UNCHANGED status
    /\ UNCHANGED <<cfgVars, authVars, builderVars, stageVars, reused, cache, build_locks, ws, wpc, tpc, tidx,
                   builderCalls, firstFail, fetchFailed>>

\* A variant whose semaphore hands out a permit without taking it.
HandlerTryAcquireNoTake(r) ==
    /\ hpc[r] = "acquire"
    /\ hpc' = [hpc EXCEPT ![r] = "dispatch"]
    /\ UNCHANGED <<cfgVars, authVars, builderVars, stageVars, reused, cache, rival, build_locks, ws, hslug, status, wpc, tpc, tidx,
                   builderCalls, firstFail, fetchFailed>>

\* A variant whose Err branch answers 409 and falls through to the dispatch.
HandlerTryAcquireFallThrough(r) ==
    /\ hpc[r] = "acquire"
    /\ IF Available(hslug[r])
       THEN /\ build_locks' = TakePermit(hslug[r])
            /\ hpc' = [hpc EXCEPT ![r] = "dispatch"]
            /\ UNCHANGED <<status, wpc>>
       ELSE /\ status' = [status EXCEPT ![r] = 409]
            /\ hpc' = [hpc EXCEPT ![r] = "done"]
            /\ wpc' = [wpc EXCEPT ![r] = "clone"]
            /\ UNCHANGED build_locks
    /\ UNCHANGED <<cfgVars, authVars, builderVars, stageVars, reused, cache, rival, ws, hslug, tpc, tidx,
                   builderCalls, firstFail, fetchFailed>>

\* A variant whose Err branch clears the workspace of the slug before it
\* answers 409.
HandlerTryAcquireWipes(r) ==
    /\ hpc[r] = "acquire"
    /\ IF Available(hslug[r])
       THEN /\ build_locks' = TakePermit(hslug[r])
            /\ hpc' = [hpc EXCEPT ![r] = "dispatch"]
            /\ UNCHANGED <<status, ws>>
       ELSE /\ status' = [status EXCEPT ![r] = 409]
            /\ hpc' = [hpc EXCEPT ![r] = "done"]
            /\ ws' = [ws EXCEPT ![hslug[r]] = "none"]
            /\ UNCHANGED build_locks
    /\ UNCHANGED <<cfgVars, authVars, builderVars, stageVars, reused, cache, rival, hslug, wpc, tpc, tidx,
                   builderCalls, firstFail, fetchFailed>>

\* build_lock.try_acquire_owned(): never waits.
HandlerTryAcquire(r) ==
    /\ hpc[r] = "acquire"
    /\ IF Available(hslug[r])
       THEN /\ build_locks' = TakePermit(hslug[r])
            /\ hpc' = [hpc EXCEPT ![r] = "dispatch"]
            /\ UNCHANGED status
       ELSE /\ status' = [status EXCEPT ![r] = 409]
            /\ hpc' = [hpc EXCEPT ![r] = "done"]
            /\ UNCHANGED build_locks
    /\ UNCHANGED <<cfgVars, authVars, builderVars, stageVars, reused, cache, rival, ws, hslug, wpc, tpc, tidx,
                   builderCalls, firstFail, fetchFailed>>

\* A variant that runs clone_repo in the handler and answers after it.
HandlerDispatchAfterClone(r) ==
    /\ hpc[r] = "dispatch"
    /\ ws' = [ws EXCEPT ![hslug[r]] = "repo"]
    /\ wpc' = [wpc EXCEPT ![r] = "checkout"]
    /\ status' = [status EXCEPT ![r] = 200]
    /\ hpc' = [hpc EXCEPT ![r] = "done"]
    /\ UNCHANGED <<cfgVars, authVars, builderVars, stageVars, reused, cache, rival, build_locks, hslug, tpc, tidx,
                   builderCalls, firstFail, fetchFailed>>

\* tokio::task::spawn_blocking(move || { let _permit = permit; ... }), then
\* BuildHookResponse (200).
HandlerDispatch(r) ==
    /\ hpc[r] = "dispatch"
    /\ wpc' = [wpc EXCEPT ![r] = "clone"]
    /\ status' = [status EXCEPT ![r] = 200]
    /\ hpc' = [hpc EXCEPT ![r] = "done"]
    /\ UNCHANGED <<cfgVars, authVars, builderVars, stageVars, reused, cache, rival, build_locks, ws, hslug, tpc, tidx,
                   builderCalls, firstFail, fetchFailed>>


(***************************************************************************)
(* The spawn_blocking worker: project.build (project/mod.rs), which calls  *)
(* repo::clone_repo (project/repo.rs).  Every external operation is a step *)
(* of its own whose outcome the environment chooses.                       *)
(***************************************************************************)
\* A variant that gives the permit back with an explicit call after build
\* returned, which a panic skips.
WorkerEndLeakOnPanic(r, outcome) ==
    /\ wpc' = [wpc EXCEPT ![r] = outcome]
    /\ build_locks' = IF outcome = "panicked" THEN build_locks
                      ELSE AddPermit(hslug[r])

\* A variant in which a run that ends takes its slug's entry out of the
\* lock registry.
WorkerEndRemovesLock(r, outcome) ==
    /\ wpc' = [wpc EXCEPT ![r] = outcome]
    /\ build_locks' = [x \in DOMAIN build_locks \ {hslug[r]} |-> build_locks[x]]

\* The closure ends (build returned Ok or Err, or it unwinds from a panic):
\* `_permit` is dropped, which adds the permit back to the semaphore.
WorkerEnd(r, outcome) ==
    /\ wpc' = [wpc EXCEPT ![r] = outcome]
    /\ build_locks' = AddPermit(hslug[r])

\* clone_repo: Repository::open(dest), or RepoBuilder::clone(..).unwrap(),
\* which panics when the clone fails.  An existing checkout is opened as it
\* is; nothing is deleted.
WorkerClone(r) ==
    /\ wpc[r] = "clone"
    /\ \/ /\ ws[hslug[r]] = "repo"
          /\ reused' = [reused EXCEPT ![r] = TRUE]
          /\ wpc' = [wpc EXCEPT ![r] = "checkout"]
          /\ UNCHANGED <<ws, build_locks>>
       \/ /\ ws[hslug[r]] = "none"
          /\ ws' = [ws EXCEPT ![hslug[r]] = "repo"]
          /\ wpc' = [wpc EXCEPT ![r] = "checkout"]
          /\ UNCHANGED <<build_locks, reused>>
       \/ /\ WorkerEnd(r, "panicked")
          /\ UNCHANGED <<ws, reused>>
    /\ UNCHANGED <<cfgVars, authVars, builderVars, stageVars, cache, rival, hpc, hslug, status, tpc, tidx,
                   builderCalls, firstFail, fetchFailed>>

\* checkout_branch: every failure is an unwrap_or_else(panic!) or expect.
WorkerCheckout(r) ==
    /\ wpc[r] = "checkout"
    /\ \/ /\ wpc' = [wpc EXCEPT ![r] = "fetch"]
          /\ UNCHANGED <<build_locks, reused>>
       \/ /\ WorkerEnd(r, "panicked")
          /\ reused' = [reused EXCEPT ![r] = FALSE]
    /\ UNCHANGED <<cfgVars, authVars, builderVars, stageVars, cache, rival, ws, hpc, hslug, status, tpc, tidx,
                   builderCalls, firstFail, fetchFailed>>

\* fetch_latest: a missing remote panics; a failed remote.fetch is logged
\* and dropped by .ok(), and clone_repo returns as after a good fetch.  Its
\* `repo` ends with it.
WorkerFetch(r) ==
    /\ wpc[r] = "fetch"
    /\ reused' = [reused EXCEPT ![r] = FALSE]
    /\ \/ /\ wpc' = [wpc EXCEPT ![r] = "start"]
          /\ UNCHANGED <<build_locks, fetchFailed>>
       \/ /\ wpc' = [wpc EXCEPT ![r] = "start"]
          /\ fetchFailed' = [fetchFailed EXCEPT ![r] = TRUE]
          /\ UNCHANGED build_locks
       \/ /\ WorkerEnd(r, "panicked")
          /\ UNCHANGED fetchFailed
    /\ UNCHANGED <<cfgVars, authVars, builderVars, stageVars, cache, rival, ws, hpc, hslug, status, tpc, tidx,
                   builderCalls, firstFail>>

\* The rest of build, which does not block: the Dockerfile of every image
\* must be a file, else return Err; spawn_build(first_build)? and
\* verify_build_started(&mut child)?; then std::thread::spawn(..) and Ok(()):
\* build returns while the first image is still building.
WorkerStartFirst(r) ==
    /\ wpc[r] = "start"
    /\ \/ /\ WorkerEnd(r, "err")
          /\ UNCHANGED <<tpc, tidx, builderCalls, firstFail>>
       \/ /\ builderCalls' = [builderCalls EXCEPT ![r] = @ + 1]
          /\ firstFail' = [firstFail EXCEPT ![r] = 1]
          /\ WorkerEnd(r, "err")
          /\ UNCHANGED <<tpc, tidx>>
       \/ /\ builderCalls' = [builderCalls EXCEPT ![r] = @ + 1]
          /\ tpc' = [tpc EXCEPT ![r] = "wait"]
          /\ tidx' = [tidx EXCEPT ![r] = 1]
          /\ WorkerEnd(r, "ok")
          /\ UNCHANGED firstFail
    /\ UNCHANGED <<cfgVars, authVars, builderVars, stageVars, reused, cache, rival, ws, hpc, hslug, status, fetchFailed>>

(***************************************************************************)
(* The detached std::thread of ProjectConfig::build.                       *)
(***************************************************************************)
\* if !cache { remove_dir_all(&repo_dest) }: a failure is logged.
ThreadCleanup(r) ==
    \/ /\ ~cache
       /\ ws' = [ws EXCEPT ![hslug[r]] = "none"]
    \/ UNCHANGED ws

\* One turn of the thread, from the wait for the build of image tidx to its
\* next wait or its end.  handle_build_completion(child, tag) waits for the
\* build; a failed build is logged, nothing is returned, and the loop
\* `for build in image_builds` goes on.  The next image is started with
\* spawn_build and verify_build_started, an Err of which is logged and
\* breaks the loop.  After the loop the checkout is removed.
ThreadWait(r) ==
    /\ tpc[r] = "wait"
    /\ \E failed \in BOOLEAN :
         LET ff == IF failed /\ firstFail[r] = 0 THEN tidx[r] ELSE firstFail[r] IN
         \/ /\ tidx[r] < NumImages(hslug[r])
            /\ builderCalls' = [builderCalls EXCEPT ![r] = @ + 1]
            /\ tidx' = [tidx EXCEPT ![r] = @ + 1]
            /\ firstFail' = [firstFail EXCEPT ![r] = ff]
            /\ UNCHANGED <<tpc, ws>>
         \/ /\ tidx[r] < NumImages(hslug[r])
            /\ builderCalls' = [builderCalls EXCEPT ![r] = @ + 1]
            /\ tidx' = [tidx EXCEPT ![r] = @ + 1]
            /\ firstFail' = [firstFail EXCEPT ![r] = IF ff = 0 THEN tidx[r] + 1 ELSE ff]
            /\ tpc' = [tpc EXCEPT ![r] = "done"]
            /\ ThreadCleanup(r)
         \/ /\ tidx[r] = NumImages(hslug[r])
            /\ firstFail' = [firstFail EXCEPT ![r] = ff]
            /\ tpc' = [tpc EXCEPT ![r] = "done"]
            /\ ThreadCleanup(r)
            /\ UNCHANGED <<builderCalls, tidx>>
    /\ UNCHANGED <<cfgVars, authVars, builderVars, stageVars, reused, cache, rival, build_locks, hpc, hslug, status, wpc,
                   fetchFailed>>

(***************************************************************************)
(* The trigger pipeline.                                                   *)
(***************************************************************************)
Next ==
    \/ \E r \in ReqIds, s \in Slugs : HandlerLookup(r, s)
    \/ \E r \in ReqIds : HandlerTryAcquire(r)
    \/ \E r \in ReqIds : HandlerDispatch(r)
    \/ \E r \in ReqIds : WorkerClone(r)
    \/ \E r \in ReqIds : WorkerCheckout(r)
    \/ \E r \in ReqIds : WorkerFetch(r)
    \/ \E r \in ReqIds : WorkerStartFirst(r)
    \/ \E r \in ReqIds : ThreadWait(r)

Spec == Init /\ [][Next]_vars

(***************************************************************************)
(* The protected route: every request goes through auth_layer first.       *)
(***************************************************************************)
\* One request, with any header and any slug, on a server with any
\* allow-list; no other request arrives.
InitAuth ==
    /\ cache = FALSE
    /\ PipeIdle
    /\ StageIdle
    /\ BuilderServing
    /\ CfgLoaded
    /\ env \in Envs
    /\ hdr = NoHeader
    /\ who = 0
    /\ auth = [r \in ReqIds |-> IF r = 1 THEN "new" ELSE "absent"]
    /\ path = [r \in ReqIds |-> "any"]
    /\ health = "none"

NextAuth ==
    \/ \E r \in ReqIds, s \in Slugs, h \in Headers : auth_layer(r, s, h)
    \/ \E r \in ReqIds, s \in Slugs : HandlerLookup(r, s)
    \/ \E r \in ReqIds : HandlerTryAcquire(r)
    \/ \E r \in ReqIds : HandlerDispatch(r)

SpecAuth == InitAuth /\ [][NextAuth]_vars

(***************************************************************************)
(* healthcheck (api.rs): GET /health, a public route.                      *)
(***************************************************************************)
\* A variant that answers only while it can take every project's permit.
HealthcheckLocked ==
    /\ serving
    /\ \A s \in Projects : Available(s)
    /\ health' = "ok"
    /\ UNCHANGED <<cfgVars, builderVars, stageVars, pipeVars, env, hdr, who, auth, path>>

\* Json({"status": "ok"}): no extractor, no state.
Healthcheck ==
    /\ serving
    /\ health' = "ok"
    /\ UNCHANGED <<cfgVars, builderVars, stageVars, pipeVars, env, hdr, who, auth, path>>

InitHealth ==
    /\ Init
    /\ cache = FALSE

NextHealth ==
    \/ Healthcheck
    \/ Next

SpecHealth == InitHealth /\ [][NextHealth]_vars

(***************************************************************************)
(* ProjectConfig::validate (project/mod.rs) on one project of the          *)
(* configuration file, field by field.  Values are sequences: a text is a  *)
(* string over "x" and "_" (a space), a URL is <<"https">>, <<"http">> or   *)
(* <<"?">> (not a URL), a location is the sequence of Path::components,     *)
(* "/" (RootDir) first when the path is absolute, "d" (Normal) and ".."    *)
(* (ParentDir); a list is the sequence of its items.                       *)
(***************************************************************************)
TextVals == StrsUpTo({"x", "_"}, MaxText)

UrlVals == {<<"https">>, <<"http">>, <<"?">>}

LocVals ==
    {l \in StrsUpTo({"/", "d", ".."}, MaxDepth) : \A k \in 2..Len(l) : l[k] # "/"}

ListVals(n) == {[k \in 1..m |-> "item"] : m \in 0..n}

\* The check of field f on value v: return Err(..) naming f when bad, go on
\* to field next otherwise.
Check(f, v, bad, next) ==
    /\ vpc = f
    /\ vfield' = f
    /\ vval' = v
    /\ IF bad
       THEN vpc' = "err" /\ verr' = f
       ELSE vpc' = next /\ UNCHANGED verr

\* The loop over self.image after the checks of one entry.
NextImage ==
    IF vimg < vcount
    THEN <<"project.image.repository", vimg + 1>>
    ELSE <<"project.deployments.namespace", vimg>>

ValidateName ==
    /\ \E v \in TextVals : Check("project.name", v, Trim(v) = <<>>, "project.slug")
    /\ UNCHANGED <<pipeVars, stageVars, builderVars, authVars, vimg, vcount, vlocs>>

ValidateSlug ==
    /\ \E v \in TextVals : Check("project.slug", v, Trim(v) = <<>>, "project.code.url")
    /\ UNCHANGED <<pipeVars, stageVars, builderVars, authVars, vimg, vcount, vlocs>>

\* Url::parse(..)?, then scheme() != "https".
ValidateUrl ==
    /\ \E v \in UrlVals :
           Check("project.code.url", v, v = <<"?">> \/ v # <<"https">>,
                 "project.code.branch")
    /\ UNCHANGED <<pipeVars, stageVars, builderVars, authVars, vimg, vcount, vlocs>>

ValidateBranch ==
    /\ \E v \in TextVals :
           Check("project.code.branch", v, Trim(v) = <<>>, "project.image")
    /\ UNCHANGED <<pipeVars, stageVars, builderVars, authVars, vimg, vcount, vlocs>>

\* self.image.is_empty(), then the first entry.
ValidateImages ==
    /\ \E v \in ListVals(MaxBuilds) :
           /\ Check("project.image", v, Len(v) = 0, "project.image.repository")
           /\ vcount' = Len(v)
           /\ vimg' = IF Len(v) = 0 THEN vimg ELSE 1
    /\ UNCHANGED <<pipeVars, stageVars, builderVars, authVars, vlocs>>

ValidateRepository ==
    /\ \E v \in TextVals :
           Check("project.image.repository", v, Trim(v) = <<>>,
                 "project.image.location")
    /\ UNCHANGED <<pipeVars, stageVars, builderVars, authVars, vimg, vcount, vlocs>>

\* A variant without the test for ParentDir components.
ValidateLocationNoParent ==
    /\ \E v \in LocVals :
           LET bad == v = <<>> \/ v[1] = "/" IN
           /\ Check("project.image.location", v, bad, "project.image.tag")
           /\ vlocs' = IF bad THEN vlocs ELSE Append(vlocs, v)
    /\ UNCHANGED <<pipeVars, stageVars, builderVars, authVars, vimg, vcount>>

\* location.trim().is_empty(), Path::is_absolute, any ParentDir component.
ValidateLocation ==
    /\ \E v \in LocVals :
           LET bad == \/ v = <<>>
                      \/ v[1] = "/"
                      \/ \E k \in 1..Len(v) : v[k] = ".."
           IN
           /\ Check("project.image.location", v, bad, "project.image.tag")
           /\ vlocs' = IF bad THEN vlocs ELSE Append(vlocs, v)
    /\ UNCHANGED <<pipeVars, stageVars, builderVars, authVars, vimg, vcount>>

ValidateTag ==
    /\ \E v \in TextVals :
           /\ Check("project.image.tag", v, Trim(v) = <<>>, NextImage[1])
           /\ vimg' = IF Trim(v) = <<>> THEN vimg ELSE NextImage[2]
    /\ UNCHANGED <<pipeVars, stageVars, builderVars, authVars, vcount, vlocs>>

ValidateNamespace ==
    /\ \E v \in TextVals :
           Check("project.deployments.namespace", v, Trim(v) = <<>>,
                 "project.deployments.resources")
    /\ UNCHANGED <<pipeVars, stageVars, builderVars, authVars, vimg, vcount, vlocs>>

\* self.deployments.resources.is_empty(), then Ok(()).
ValidateResources ==
    /\ \E v \in ListVals(MaxRes) :
           Check("project.deployments.resources", v, Len(v) = 0, "ok")
    /\ UNCHANGED <<pipeVars, stageVars, builderVars, authVars, vimg, vcount, vlocs>>

\* The startup after the configuration was loaded: an Err of validate ends
\* the process before the listener is bound; otherwise the router is
\* served.
StartAfterLoad ==
    /\ ~serving
    /\ \/ /\ vpc = "err"
          /\ vpc' = "halted"
          /\ UNCHANGED serving
       \/ /\ vpc = "ok"
          /\ serving' = TRUE
          /\ UNCHANGED vpc
    /\ UNCHANGED <<pipeVars, stageVars, authVars, cluster, lookalike, builder, active,
                   ipc, icall, ires, icreate, ifault, kfail, created,
                   vfield, vval, verr, vimg, vcount, vlocs>>

\* repo_dest of ProjectConfig::build, as path components.
RepoDest == <<"/", "w">>

\* Path::new(&repo_dest).join(&image.location): an absolute location
\* replaces repo_dest.
DockerfilePath(l) == IF l # <<>> /\ l[1] = "/" THEN l ELSE RepoDest \o l

\* The process starts with the configuration file of one project parsed.
InitConfig ==
    /\ cache = FALSE
    /\ PipeIdle
    /\ StageIdle
    /\ cluster = "none"
    /\ lookalike = FALSE
    /\ builder = "ready"
    /\ active = "builder"
    /\ BuilderIdle
    /\ serving = FALSE
    /\ AuthPassed
    /\ vpc = "project.name"
    /\ vfield = "none"
    /\ vval = <<>>
    /\ verr = "none"
    /\ vimg = 0
    /\ vcount = 0
    /\ vlocs = <<>>

NextConfig ==
    \/ ValidateName
    \/ ValidateSlug
    \/ ValidateUrl
    \/ ValidateBranch
    \/ ValidateImages
    \/ ValidateRepository
    \/ ValidateLocation
    \/ ValidateTag
    \/ ValidateNamespace
    \/ ValidateResources
    \/ StartAfterLoad
    \/ \E r \in ReqIds, s \in Slugs : HandlerLookup(r, s)
    \/ \E r \in ReqIds : HandlerTryAcquire(r)
    \/ \E r \in ReqIds : HandlerDispatch(r)

SpecConfig == InitConfig /\ [][NextConfig]_vars

(***************************************************************************)
(* Startup: the process calls buildx::initialize once and then serves the  *)
(* router of api::start, whatever initialize returned.                     *)
(***************************************************************************)
\* A fresh machine: no builder yet, any cluster environment.
InitStartup ==
    /\ cache = FALSE
    /\ PipeIdle
    /\ StageIdle
    /\ cluster \in {"none", "noenv", "full"}
    /\ lookalike = FALSE
    /\ builder = "absent"
    /\ active = "default"
    /\ BuilderIdle
    /\ serving = FALSE
    /\ AuthPassed
    /\ CfgLoaded

\* The startup goes on to api::start after the one call of initialize
\* returned, Ok or Err.
StartServing ==
    /\ ~serving
    /\ icall = 1
    /\ ipc \in {"ok", "err"}
    /\ serving' = TRUE
    /\ UNCHANGED <<cfgVars, authVars, pipeVars, stageVars, cluster, lookalike, builder, active,
                   ipc, icall, ires, icreate, ifault, kfail, created>>

NextStartup ==
    \/ NextBuilder
    \/ StartServing
    \/ Next

SpecStartup == InitStartup /\ [][NextStartup]_vars


(***************************************************************************)
(* build_images (project/image.rs): the image build sequencer.             *)
(***************************************************************************)
NumBuilds == Len(images)

\* Sequences over S of length 1..n.
SeqsUpTo(S, n) == UNION {[1..k -> S] : k \in 1..n}

\* The project whose checkout is the repo_dest argument.
StageProject == "api"

\* The arguments: per image whether its Dockerfile is a regular file, and
\* the resources of project.deployments (at least one of each: validate());
\* repo_dest holds the checkout.
InitStages ==
    /\ cache = FALSE
    /\ build_locks = [s \in Projects |-> 1]
    /\ ws = [s \in Projects |-> IF s = StageProject THEN "repo" ELSE "none"]
    /\ hpc = [r \in ReqIds |-> "idle"]
    /\ hslug = [r \in ReqIds |-> "ghost"]
    /\ status = [r \in ReqIds |-> 0]
    /\ wpc = [r \in ReqIds |-> "none"]
    /\ tpc = [r \in ReqIds |-> "none"]
    /\ tidx = [r \in ReqIds |-> 0]
    /\ builderCalls = [r \in ReqIds |-> 0]
    /\ firstFail = [r \in ReqIds |-> 0]
    /\ fetchFailed = [r \in ReqIds |-> FALSE]
    /\ rival = [r \in ReqIds |-> {}]
    /\ reused = [r \in ReqIds |-> FALSE]
    /\ images \in SeqsUpTo(BOOLEAN, MaxBuilds)
    /\ AuthPassed
    /\ CfgLoaded
    /\ bpc = "check"
    /\ bidx = 0
    /\ bcalls = 0
    /\ bfail = 0
    /\ bclean = 0
    /\ bproc = <<>>
    /\ resources \in {[i \in 1..k |-> i] : k \in 1..MaxRes}
    /\ rpc = "idle"
    /\ ridx = 0
    /\ attempts = <<>>
    /\ rerr = {}
    /\ BuilderServing

\* A variant that looks only at the Dockerfile of the image it is about to
\* build first.
BuildCheckFirstOnly ==
    /\ bpc = "check"
    /\ IF images[1]
       THEN /\ bpc' = "spawn"
            /\ bidx' = 1
       ELSE /\ bpc' = "err"
            /\ UNCHANGED bidx
    /\ UNCHANGED <<cfgVars, authVars, builderVars, pipeVars, images, bcalls, bfail, bclean, bproc,
                   resources, rpc, ridx, attempts, rerr>>

\* for build in &image_builds { if !is_file(..) { return Err(..) } }
BuildCheck ==
    /\ bpc = "check"
    /\ IF \A i \in 1..NumBuilds : images[i]
       THEN /\ bpc' = "spawn"
            /\ bidx' = 1
       ELSE /\ bpc' = "err"
            /\ UNCHANGED bidx
    /\ UNCHANGED <<cfgVars, authVars, builderVars, pipeVars, images, bcalls, bfail, bclean, bproc,
                   resources, rpc, ridx, attempts, rerr>>

\* The process of the build at hand is in state st from now on.
Spawned(st) == Append(bproc, [image |-> bidx, state |-> st])

Ended(st) == [bproc EXCEPT ![Len(bproc)].state = st]

\* A variant that goes on to spawn the next image's build without waiting
\* for the one it started.
BuildStartNoWait ==
    /\ bpc = "spawn"
    /\ bcalls' = bcalls + 1
    /\ \/ /\ bproc' = Spawned("running")
          /\ IF bidx < NumBuilds
             THEN bpc' = "spawn" /\ bidx' = bidx + 1
             ELSE bpc' = "wait" /\ UNCHANGED bidx
          /\ UNCHANGED bfail
       \/ /\ bpc' = "err"
          /\ bfail' = bidx
          /\ UNCHANGED <<bproc, bidx>>
    /\ UNCHANGED <<cfgVars, authVars, builderVars, pipeVars, images, bclean,
                   resources, rpc, ridx, attempts, rerr>>

\* spawn_build(..)?; verify_build_started(..)?: Err when the command cannot
\* be spawned, when the process has exited with a failure already, or when
\* try_wait fails (the process is left to itself).
BuildStart ==
    /\ bpc = "spawn"
    /\ bcalls' = bcalls + 1
    /\ \/ /\ bpc' = "wait"
          /\ bproc' = Spawned("running")
          /\ UNCHANGED bfail
       \/ /\ bpc' = "err"
          /\ bfail' = bidx
          /\ \/ UNCHANGED bproc
             \/ bproc' = Spawned("failed")
             \/ bproc' = Spawned("lost")
    /\ UNCHANGED <<cfgVars, authVars, builderVars, pipeVars, images, bidx, bclean,
                   resources, rpc, ridx, attempts, rerr>>

\* The loop of build_images after a finished build: the next image, or the
\* removal of the checkout.
BuildAdvance ==
    IF bidx < NumBuilds
    THEN /\ bpc' = "spawn"
         /\ bidx' = bidx + 1
    ELSE /\ bpc' = "cleanup"
         /\ UNCHANGED bidx

\* A variant of handle_build_completion that logs a failed build and
\* returns nothing, so that the sequence goes on.
BuildWaitLogOnly ==
    /\ bpc = "wait"
    /\ \/ /\ bproc' = Ended("ok")
          /\ UNCHANGED bfail
       \/ /\ bproc' \in {Ended("failed"), Ended("lost")}
          /\ bfail' = IF bfail = 0 THEN bidx ELSE bfail
    /\ BuildAdvance
    /\ UNCHANGED <<cfgVars, authVars, builderVars, pipeVars, images, bcalls, bclean,
                   resources, rpc, ridx, attempts, rerr>>

\* handle_build_completion(child, &tag)?: Err when the wait fails (the
\* process is left to itself) or the build exits with a failure status.
BuildWait ==
    /\ bpc = "wait"
    /\ \/ /\ BuildAdvance
          /\ bproc' = Ended("ok")
          /\ UNCHANGED bfail
       \/ /\ bpc' = "err"
          /\ bfail' = bidx
          /\ bproc' \in {Ended("failed"), Ended("lost")}
          /\ UNCHANGED bidx
    /\ UNCHANGED <<cfgVars, authVars, builderVars, pipeVars, images, bcalls, bclean,
                   resources, rpc, ridx, attempts, rerr>>

\* A variant that returns the error of remove_dir_all to the caller.
BuildCleanupPropagates ==
    /\ bpc = "cleanup"
    /\ bclean' = bclean + 1
    /\ \/ /\ ws' = [ws EXCEPT ![StageProject] = "none"]
          /\ bpc' = "ok"
       \/ /\ bpc' = "err"
          /\ UNCHANGED ws
    /\ UNCHANGED <<cfgVars, authVars, builderVars, cache, build_locks, hpc, hslug, status, wpc, tpc, tidx,
                   builderCalls, firstFail, fetchFailed, rival, reused,
                   images, bidx, bcalls, bfail, bproc,
                   resources, rpc, ridx, attempts, rerr>>

\* remove_dir_all(&repo_dest): a failure is logged; then Ok(()).
BuildCleanup ==
    /\ bpc = "cleanup"
    /\ bclean' = bclean + 1
    /\ bpc' = "ok"
    /\ \/ ws' = [ws EXCEPT ![StageProject] = "none"]
       \/ UNCHANGED ws
    /\ UNCHANGED <<cfgVars, authVars, builderVars, cache, build_locks, hpc, hslug, status, wpc, tpc, tidx,
                   builderCalls, firstFail, fetchFailed, rival, reused,
                   images, bidx, bcalls, bfail, bproc,
                   resources, rpc, ridx, attempts, rerr>>

(***************************************************************************)
(* The coordinator step between the two stages: the restart stage runs     *)
(* after build_images returned Ok.                                         *)
(***************************************************************************)
StartRestart ==
    /\ bpc = "ok"
    /\ rpc = "idle"
    /\ rpc' = "run"
    /\ ridx' = 1
    /\ UNCHANGED <<cfgVars, authVars, builderVars, pipeVars, images, bpc, bidx, bcalls, bfail, bclean, bproc,
                   resources, attempts, rerr>>

(***************************************************************************)
(* rollout_restart (kube.rs).                                              *)
(***************************************************************************)
\* Outcomes of one `kubectl rollout restart -n <namespace> <resource>`:
\* exit status 0, a failure exit status, or the command could not be run.
Outcomes == {"ok", "failed", "norun"}

\* One iteration of `for resource in resources`: run_command_output(..)?
\* returns Err("Failed to run kubectl rollout restart: ..") when the command
\* cannot be run; a failure status returns Err("Failed to restart `<resource>`
\* ..") at once.
RestartStep ==
    /\ rpc = "run"
    /\ \E o \in Outcomes :
         /\ attempts' = Append(attempts, <<resources[ridx], o>>)
         /\ IF o = "ok"
            THEN /\ rerr' = rerr
                 /\ IF ridx < Len(resources)
                    THEN /\ ridx' = ridx + 1
                         /\ rpc' = "run"
                    ELSE /\ ridx' = ridx
                         /\ rpc' = "ok"
            ELSE /\ rerr' = IF o = "failed" THEN {resources[ridx]} ELSE {}
                 /\ rpc' = "err"
                 /\ ridx' = ridx
    /\ UNCHANGED <<cfgVars, authVars, builderVars, pipeVars, images, bpc, bidx, bcalls, bfail, bclean, bproc, resources>>

NextStages ==
    \/ BuildCheck
    \/ BuildStart
    \/ BuildWait
    \/ BuildCleanup
    \/ StartRestart
    \/ RestartStep

SpecStages == InitStages /\ [][NextStages]_vars


(***************************************************************************)
(* Claims C1..C10.                                                         *)
(***************************************************************************)
SameSlug(r, q) == r # q /\ hpc[r] # "idle" /\ hpc[q] # "idle" /\ hslug[r] = hslug[q]

RunOver(r) == wpc[r] \in WorkerEnded /\ tpc[r] \in {"none", "done"}

\* C1: for every slug, at most one run has work pending or executing (fetch,
\* an image build, the workspace cleanup) at any time.
C1_OneRunPerSlug ==
    \A r, q \in ReqIds : SameSlug(r, q) => ~(RunActive(r) /\ RunActive(q))

\* C2 (as stated): of two requests for the same configured slug that arrive
\* concurrently while no run is in flight, exactly one is answered 200 and
\* the other 409.
C2_ExactlyOneOfTwo ==
    \A r \in ReqIds : \A q \in rival[r] :
        (status[r] # 0 /\ status[q] # 0) => {status[r], status[q]} = {200, 409}

HeldByOther(r) == \E q \in ReqIds : SameSlug(r, q) /\ Holds(q)

\* C2 (amended): a request is answered 409, and starts nothing, exactly when
\* another request for the slug holds the permit at its try_acquire;
\* otherwise it takes the permit, and then no other request for the slug
\* holds it.
C2_OneHolderDecides ==
    [][\A r \in ReqIds :
         (hpc[r] = "acquire" /\ hpc'[r] # "acquire") =>
            IF HeldByOther(r)
            THEN status'[r] = 409 /\ hpc'[r] = "done" /\ wpc'[r] = "none"
            ELSE /\ hpc'[r] = "dispatch"
                 /\ status'[r] = 0
                 /\ \A q \in ReqIds : SameSlug(r, q) => ~Holds(q)']_vars

\* Two requests raced for a free permit: one was accepted, the other rejected.
C2_Witness ==
    \E r \in ReqIds : \E q \in rival[r] : status[q] = 200 /\ status[r] = 409

C4_BuilderCallsUpToFirstFailure ==
    \A r \in ReqIds :
        (RunOver(r) /\ firstFail[r] > 0) => builderCalls[r] = firstFail[r]

\* C5: in a run whose fetch of the latest commits failed, no image build is
\* started.
C5_NoBuildAfterFailedFetch ==
    \A r \in ReqIds : fetchFailed[r] => builderCalls[r] = 0

\* C6: the handler of a request for a slug that is no configured project
\* answers 404 and changes no semaphore and no run; such a request never has
\* a run.
C6_UnknownSlugTouchesNothing ==
    [][/\ \A r \in ReqIds :
            (hpc[r] = "idle" /\ hpc'[r] # "idle" /\ hslug'[r] \notin Projects) =>
                /\ status'[r] = 404
                /\ hpc'[r] = "done"
                /\ build_locks' = build_locks
                /\ wpc' = wpc
                /\ tpc' = tpc
       /\ \A r \in ReqIds :
            (hpc'[r] # "idle" /\ hslug'[r] \notin Projects) =>
                (wpc'[r] = "none" /\ tpc'[r] = "none" /\ status'[r] = 404)]_vars

\* A request for an unknown slug was answered 404 while a run held a permit.
C6_Witness ==
    \E r, q \in ReqIds :
        /\ hslug[r] \notin Projects /\ status[r] = 404
        /\ wpc[q] \in WorkerActive /\ build_locks[hslug[q]] = 0

\* C7: a request answered 409 has ended its handler and never has a worker,
\* a thread or a build, in this and every later state.
C7_RejectedNeverRuns ==
    \A r \in ReqIds :
        status[r] = 409 =>
            /\ hpc[r] = "done"
            /\ wpc[r] = "none"
            /\ tpc[r] = "none"
            /\ builderCalls[r] = 0

\* A request was rejected; the run that was in flight has ended since and the
\* permit is free again; the rejected request has started nothing.
C7_Witness ==
    \E r, q \in ReqIds :
        /\ SameSlug(r, q)
        /\ status[r] = 409 /\ wpc[r] = "none"
        /\ status[q] = 200 /\ RunOver(q)
        /\ build_locks[hslug[r]] = 1

\* C8: whenever no accepted request for a slug is between try_acquire and the
\* end of its worker (returned Ok, returned Err, or panicked), the permit of
\* the slug is available, so the next try_acquire succeeds.
C8_LockFreeWhenNoWorker ==
    \A s \in Projects :
        (\A r \in ReqIds : (hpc[r] # "idle" /\ hslug[r] = s) => ~Holds(r)) =>
            Available(s)

\* The worker of a run panicked and a later trigger for the slug was accepted.
C8_Witness ==
    \E r, q \in ReqIds :
        SameSlug(r, q) /\ wpc[r] = "panicked" /\ Holds(q) /\ wpc[q] # "none"

RestartOver == rpc \in {"ok", "err"}

Attempted(x) == {j \in 1..Len(attempts) : attempts[j][1] = x}

\* C9: when rollout_restart has returned, the restart command was issued
\* exactly once for every resource.
C9_EveryResourceOnce ==
    RestartOver =>
        \A i \in 1..Len(resources) : Cardinality(Attempted(resources[i])) = 1

FailedResources == {attempts[j][1] : j \in {k \in 1..Len(attempts) : attempts[k][2] # "ok"}}

\* C10: rollout_restart returns Ok iff every resource's restart succeeded, and
\* an Err names every resource whose restart failed.
C10_ErrNamesEveryFailure ==
    RestartOver =>
        /\ (rpc = "ok") <=> (Len(attempts) = Len(resources) /\ FailedResources = {})
        /\ (rpc = "err") => rerr = FailedResources


(***************************************************************************)
(* Claims C11..C20.                                                        *)
(***************************************************************************)
\* C11: an invocation of initialize that follows one which returned Ok
\* issues no `docker buildx create`, returns Err only when one of its own
\* commands failed for a reason outside the program, and returns Ok with the
\* builder selected; and over all invocations at most one
\* `docker buildx create` succeeded.
C11_SecondInitializeReuses ==
    /\ \A i \in InitIds :
         (i > 1 /\ ires[i - 1] = "ok") =>
            /\ icreate[i] = 0
            /\ ires[i] = "err" => ifault[i]
            /\ ires[i] = "ok" => (active = "builder" /\ builder # "absent")
    /\ created <= 1

\* The first invocation created the builder, the second one found and
\* selected it.
C11_Witness ==
    /\ ires[1] = "ok" /\ icreate[1] = 1 /\ created = 1
    /\ ires[2] = "ok" /\ icreate[2] = 0 /\ active = "builder"

\* C12: when the Dockerfile of any image of the sequence is no regular
\* file, no build is ever started and no restart command is ever issued.
C12_NoBuildIfDockerfileMissing ==
    (\E i \in 1..NumBuilds : ~images[i]) =>
        /\ bcalls = 0
        /\ bpc \in {"check", "err"}
        /\ rpc = "idle"
        /\ attempts = <<>>

\* Three images, the Dockerfile of the middle one missing: build_images
\* returned Err.
C12_Witness ==
    /\ NumBuilds = 3
    /\ images[1] /\ ~images[2] /\ images[3]
    /\ bpc = "err"

BuildOver == bpc \in {"ok", "err"}

\* C13: when build_images has returned, Ok or Err, the removal of the
\* checkout was attempted exactly once.
C13_CleanupExactlyOnce == BuildOver => bclean = 1

\* The removal of the checkout was attempted and the checkout is still there.
CleanupFailed == bclean > 0 /\ ws[StageProject] = "repo"

\* C14: after every image was built, a failed removal of the checkout leaves
\* the result of build_images Ok, as a successful removal does.
C14_CleanupFailureStaysOk ==
    /\ bclean > 0 => (bpc = "ok" /\ bfail = 0 /\ bcalls = NumBuilds)
    /\ CleanupFailed => bpc = "ok"

\* Every image was built, the removal of the checkout failed, and
\* build_images returned Ok.
C14_Witness == CleanupFailed /\ bpc = "ok" /\ bcalls = NumBuilds /\ NumBuilds > 1

\* C15: while the process serves after initialize returned Err, no trigger
\* is accepted, no run is started and no build command is invoked.
C15_NotReadyRejectsTriggers ==
    (serving /\ ires[1] = "err") =>
        \A r \in ReqIds :
            /\ status[r] # 200
            /\ wpc[r] = "none"
            /\ builderCalls[r] = 0

\* C16: the response of a request is produced by a step of its handler,
\* from the project lookup (404), the lock lookup (500) or try_acquire (409,
\* else 200), at a moment when no stage of its run has run (the worker is
\* absent, or queued in the 200 case), and no later step of the run, ending
\* well or badly, changes it.
C16_ResponseFromHandlerOnly ==
    [][\A r \in ReqIds :
         /\ status[r] # 0 => status'[r] = status[r]
         /\ (status[r] = 0 /\ status'[r] # 0) =>
              /\ hpc[r] # "done" /\ hpc'[r] = "done"
              /\ wpc[r] = "none" /\ tpc'[r] = "none" /\ builderCalls'[r] = 0
              /\ status'[r] \in {200, 404, 409, 500}
              /\ status'[r] = 404 => (hpc[r] = "idle" /\ hslug'[r] \notin Projects)
              /\ status'[r] = 500 => (hpc[r] = "idle" /\ hslug'[r] \in Projects)
              /\ status'[r] = 409 => (hpc[r] = "acquire" /\ ~Available(hslug[r]))
              /\ status'[r] = 200 => (hpc[r] = "dispatch" /\ wpc'[r] = "clone")
              /\ status'[r] # 200 => wpc'[r] = "none"]_vars

\* Two triggers were answered 200; the run of one ended with every image
\* built, the worker of the other returned Err or panicked.
C16_Witness ==
    \E r, q \in ReqIds :
        /\ status[r] = 200 /\ RunOver(r) /\ wpc[r] = "ok" /\ firstFail[r] = 0
        /\ status[q] = 200 /\ RunOver(q) /\ wpc[q] \in {"err", "panicked"}

\* C17: a step changes the permits of a slug only if it is a step of a
\* request for that slug, and a trigger is answered 409 only when a request
\* for its own slug holds the permit; runs of other slugs, at any position,
\* never make it so.
C17_SlugsIndependent ==
    [][/\ \A s \in Projects :
            build_locks'[s] # build_locks[s] =>
                \E r \in ReqIds :
                    hslug[r] = s /\ (hpc'[r] # hpc[r] \/ wpc'[r] # wpc[r])
       /\ \A r \in ReqIds :
            (status[r] = 0 /\ status'[r] = 409) => HeldByOther(r)
       /\ \A r \in ReqIds :
            (hpc[r] = "acquire" /\ hpc'[r] # "acquire" /\ ~HeldByOther(r)) =>
                hpc'[r] = "dispatch"]_vars

\* Triggers for two different projects were both accepted and their workers
\* run at the same time.
C17_Witness ==
    \E r, q \in ReqIds :
        /\ hslug[r] = "api" /\ status[r] = 200 /\ wpc[r] \in WorkerActive
        /\ hslug[q] = "web" /\ status[q] = 200 /\ wpc[q] \in WorkerActive

\* C18: clone_repo never works on a checkout that was on disk when the run
\* began: what it checks out and builds was fetched afresh by this run.
C18_FreshCheckout == \A r \in ReqIds : ~reused[r]

\* C19: the worker never panics in the fetch, and a run whose fetch of the
\* latest commits failed does not go on as if the fetch had succeeded: its
\* worker returns Err.
C19_FetchFailureIsErr ==
    \A r \in ReqIds :
        /\ wpc[r] # "panicked"
        /\ fetchFailed[r] => wpc[r] \in {"fetch", "err"}

\* C20: the worker of a finished run returned Ok only if its fetch succeeded
\* and every image was built.
C20_OkOnlyIfEveryStageSucceeded ==
    \A r \in ReqIds :
        (RunOver(r) /\ wpc[r] = "ok") => (~fetchFailed[r] /\ firstFail[r] = 0)


(***************************************************************************)
(* Claims C21..C30.                                                        *)
(***************************************************************************)
\* C21: the step that answers a request 409 changes nothing but that
\* request's response and handler position: no permit, no workspace, no
\* worker, no thread and no build of any request; and a request answered
\* 409 takes no step afterwards.
C21_RejectionChangesNothing ==
    [][\A r \in ReqIds :
         /\ (status[r] = 0 /\ status'[r] = 409) =>
              /\ UNCHANGED <<build_locks, ws, wpc, tpc, tidx, builderCalls,
                             firstFail, fetchFailed, reused>>
              /\ \A q \in ReqIds \ {r} : hpc'[q] = hpc[q] /\ status'[q] = status[q]
         /\ status[r] = 409 =>
              /\ hpc'[r] = hpc[r] /\ wpc'[r] = "none" /\ tpc'[r] = "none"
              /\ status'[r] = 409]_vars

\* A request was answered 409 while the worker of the run in flight is at
\* work on its checkout.
C21_Witness ==
    \E r, q \in ReqIds :
        /\ SameSlug(r, q)
        /\ status[r] = 409
        /\ wpc[q] \in {"checkout", "fetch", "start"}
        /\ ws[hslug[q]] = "repo"

\* The header has the form 'Bearer <non-empty token>'.
WellFormed(h) ==
    h.some /\ Len(h.value) > 2 /\ h.value[1] = "B" /\ h.value[2] = "_"

\* What follows 'Bearer ' in the header.
TokenOf(h) == SubSeq(h.value, 3, Len(h.value))

InAllowList(token) == env.some /\ authorize_bearer(token)

Refused(r) == auth[r] \in {"missing", "format", "token", "panicked"}

\* C22: a POST /{slug} request without an Authorization header, with a
\* header that is not 'Bearer <non-empty token>', or with a token that is
\* not in the allow-list is answered 401 and never reaches handler: it
\* takes no permit and starts no run, whatever its slug.
C22_UnauthorizedNeverReachesHandler ==
    /\ (who # 0 /\ (~WellFormed(hdr) \/ ~InAllowList(TokenOf(hdr))))
           => Refused(who)
    /\ \A r \in ReqIds :
           Refused(r) =>
               /\ status[r] = 401
               /\ hpc[r] = "idle" /\ wpc[r] = "none" /\ tpc[r] = "none"
               /\ builderCalls[r] = 0
    /\ \A r \in ReqIds : hpc[r] # "idle" => auth[r] = "pass"
    /\ \A s \in Projects :
           build_locks[s] = 0 =>
               \E q \in ReqIds : auth[q] = "pass" /\ hslug[q] = s

\* The part of C22 that is about the handler: a request that auth_layer
\* did not let through never reaches handler, takes no permit and starts no
\* run.
RefusedNeverReachesHandler ==
    /\ (who # 0 /\ (~WellFormed(hdr) \/ ~InAllowList(TokenOf(hdr))))
           => Refused(who)
    /\ \A r \in ReqIds :
           Refused(r) =>
               /\ status[r] \in {0, 401}
               /\ hpc[r] = "idle" /\ wpc[r] = "none" /\ tpc[r] = "none"
               /\ builderCalls[r] = 0
    /\ \A r \in ReqIds : hpc[r] # "idle" => auth[r] = "pass"

\* C23: GET /health needs no authentication and answers the static ok
\* payload in every state, with runs in flight and after failed runs, and
\* changes no lock and nothing else of the trigger path.
C23_HealthAlwaysOk ==
    /\ [](serving => ENABLED Healthcheck)
    /\ [][health' # health =>
            /\ health' = "ok"
            /\ UNCHANGED <<pipeVars, env, hdr, who, auth, path>>]_vars

C23_Witness ==
    /\ health = "ok"
    /\ \E s \in Projects : build_locks[s] = 0
    /\ \E r \in ReqIds : wpc[r] \in {"err", "panicked"} \/ firstFail[r] # 0

\* C30: an empty bearer token never authorizes a request, also when the
\* allow-list holds an empty entry: 'Bearer ' with nothing after the space
\* is rejected as malformed, not looked up in the allow-list.
C30_EmptyTokenNeverAuthorizes ==
    /\ (who # 0 /\ hdr.some /\ hdr.value = <<"B", "_">>)
           => (auth[who] = "format" /\ status[who] = 401)
    /\ (who # 0 /\ auth[who] = "pass") => TokenOf(hdr) # <<>>
    /\ (who # 0 /\ hdr.some /\ TokenOf(hdr) = <<>>) => auth[who] = "format"

C30_Witness ==
    /\ who # 0 /\ hdr.some /\ hdr.value = <<"B", "_">>
    /\ env.some /\ Len(env.value) > 0
    /\ authorize_bearer(<<>>)
    /\ auth[who] = "format"

\* The build processes of the sequence that may be executing.
Executing == {k \in 1..Len(bproc) : bproc[k].state \in {"running", "lost"}}

\* C24: within one build sequence the images are built one at a time in
\* declaration order: the build of image i+1 is started only after the
\* build process of image i exited successfully, and no two build processes
\* of the sequence execute at the same time.
C24_OneBuildAtATime ==
    /\ \A k \in 1..Len(bproc) :
           /\ bproc[k].image = k
           /\ k > 1 => bproc[k - 1].state = "ok"
    /\ Cardinality(Executing) <= 1

C24_Witness ==
    /\ Len(bproc) = NumBuilds
    /\ NumBuilds > 2
    /\ bproc[NumBuilds].state = "running"

\* C25: whenever initialize returns Ok, the builder exists, is the selected
\* builder and has been bootstrapped, over any sequence of invocations; and
\* a failing step ends the invocation: bootstrap runs only on the builder
\* that the invocation created and selected.
C25_OkMeansReady ==
    /\ ipc = "ok" => (builder = "ready" /\ active = "builder")
    /\ ipc = "bootstrap" =>
           (builder # "absent" /\ active = "builder" /\ icreate[icall] = 1)

\* The part of C25 about failing steps: an invocation whose creation
\* failed has returned Err, with the builder as it was.
FailedStepEndsInvocation ==
    /\ ipc = "bootstrap" =>
           (builder # "absent" /\ active = "builder" /\ icreate[icall] = 1)
    /\ ipc \in {"use", "bootstrap", "ok"} => ires[icall] # "err"
    /\ (icall > 0 /\ ires[icall] = "err") => ipc = "err"

\* C26: without a service-account token the credential step is skipped and
\* never makes initialize fail; with a token, a failure of any credential
\* step (an unset host or port variable, a failing kubectl command) makes
\* initialize return Err before the builder is looked up, created or
\* selected.
C26_CredentialFailureIsFatal ==
    /\ cluster = "none" => kfail = 0
    /\ kfail # 0 =>
           /\ cluster # "none"
           /\ ipc = "err" /\ ires[icall] = "err"
           /\ icreate[icall] = 0
    /\ ipc \in {"check", "use", "create", "bootstrap", "ok"} => kfail = 0
    /\ (cluster = "none" /\ icall > 0 /\ ires[icall] = "err") =>
           (ifault[icall] \/ lookalike \/ builder # "absent")

C26_Witness ==
    /\ cluster = "full" /\ kfail > 2
    /\ ipc = "err" /\ icall = 2 /\ ires[1] = "ok"
    /\ builder = "ready" /\ icreate[2] = 0

\* The accepted runs for slug s with work pending or executing.
Unfinished(s) == {r \in ReqIds : hslug[r] = s /\ hpc[r] # "idle" /\ RunActive(r)}

\* C27: for each configured slug the available permits are 0 or 1, and they
\* are 0 exactly when one accepted run for the slug has not finished all of
\* its work; the permit is never free while work of an accepted run is
\* pending or executing.
C27_PermitTracksWork ==
    \A s \in Projects :
        /\ build_locks[s] \in {0, 1}
        /\ build_locks[s] = 0 <=> Cardinality(Unfinished(s)) = 1
        /\ build_locks[s] = 1 => Unfinished(s) = {}

\* The part of C27 that holds: the permits are 0 or 1, and 0 exactly while a
\* request is between try_acquire_owned and the end of its worker.
PermitTracksWorker ==
    \A s \in Projects :
        /\ build_locks[s] \in {0, 1}
        /\ build_locks[s] = 0 <=>
               Cardinality({r \in ReqIds : hslug[r] = s /\ Holds(r)}) = 1
        /\ build_locks[s] = 1 => {r \in ReqIds : hslug[r] = s /\ Holds(r)} = {}

\* C28: the key set of the lock registry is the set of configured slugs
\* from startup on and never changes, so a trigger for a configured slug
\* always finds its lock: no request is ever answered 500.
C28_LockRegistryFixed ==
    /\ DOMAIN build_locks = Projects
    /\ \A r \in ReqIds : status[r] # 500
    /\ \A r \in ReqIds :
           (hpc[r] # "idle" /\ hslug[r] \in Projects) =>
               (hpc[r] \in {"acquire", "dispatch"} \/ status[r] \in {200, 409})

C28_Witness ==
    \E r, q \in ReqIds :
        /\ r < q /\ hslug[r] = hslug[q] /\ hslug[r] \in Projects
        /\ wpc[r] \in WorkerEnded
        /\ status[r] = 200 /\ status[q] \in {200, 409}

TextFields ==
    {"project.name", "project.slug", "project.code.branch",
     "project.image.repository", "project.image.tag",
     "project.deployments.namespace"}

\* Value v of field f violates the constraint the configuration puts on f.
Violates(f, v) ==
    IF f \in TextFields THEN v = <<>>
    ELSE IF f = "project.code.url" THEN v # <<"https">>
    ELSE IF f \in {"project.image", "project.deployments.resources"} THEN Len(v) = 0
    ELSE IF f = "project.image.location"
    THEN v = <<>> \/ v[1] = "/" \/ \E k \in 1..Len(v) : v[k] = ".."
    ELSE FALSE

\* Path p never leaves directory base: it begins with base, and no prefix of
\* the rest goes up more often than down.
Under(p, base) ==
    /\ Len(p) >= Len(base)
    /\ SubSeq(p, 1, Len(base)) = base
    /\ \A k \in (Len(base) + 1)..Len(p) :
           Cardinality({j \in (Len(base) + 1)..k : p[j] = ".."})
               <= Cardinality({j \in (Len(base) + 1)..k : p[j] = "d"})

=============================================================================
